---------------------------- MODULE Spec2Model ----------------------------
(***************************************************************************)
(* The voting and credit subsystem of the playlists API                    *)
(* (src/src/playlists/mod.rs): the handlers upvote_playlist and            *)
(* upvote_entry, run by concurrent workers against a store that offers     *)
(* only per-statement atomicity; next to them the delete handlers of the   *)
(* same file and the JSON codec of JsSafeBigInt (src/src/utils.rs).  The   *)
(* handlers' code is in src/src/playlists/mod.rs; the store operations     *)
(* they call (modules playlist, entries and user_info) are not among the   *)
(* source files and are modelled from the specification's contracts        *)
(* (sections 4.1, 4.2 and 6).                                              *)
(***************************************************************************)
EXTENDS Integers, FiniteSets, Sequences, TLC

(***************************************************************************)
(* Bounds of the model.                                                    *)
(***************************************************************************)
\* Vote requests started in one behaviour.
MaxRequests == 2
\* Replenishment stops when a balance has reached this value.
MaxCredits == 1
\* The clock stops at this hour.
MaxTime == 12
\* Identifiers are signed integers of this many bits (64 in the program).
IdBits == 5

(***************************************************************************)
(* Program constants.                                                      *)
(***************************************************************************)
\* "in the last 12 hours": the cooldown window, in hours.
CooldownWindow == 12
\* adjust_user_credits(&session, user_id, -1)
DebitDelta == -1

(***************************************************************************)
(* Domains.                                                                *)
(***************************************************************************)
Workers == {"w1", "w2"}
Users == {"u1", "u2"}
\* Bearer tokens: t1 and t2 resolve to u1 and u2, bad resolves to no user.
Tokens == {"t1", "t2", "bad"}
Kinds == {"Playlist", "Entry"}
\* Target ids: id a is a row of both tables (the playlist is owned by u1,
\* the entry by u2), id b of neither.
Ids == {"a", "b"}
NoUser == "none"
NoRow == [owner_id |-> NoUser, votes |-> -1]
\* No time at all: before every time of the clock.
NoTime == 0 - 1
\* The clock advances by a whole window at a time.
TickStep == CooldownWindow

VARIABLES
    now,        \* the store's clock, in hours
    credits,    \* Credit Ledger: user -> credits
    targets,    \* Target Store: kind -> id -> row (NoRow: no such row)
    cooldowns,  \* Vote Cooldown Tracker: kind -> set of vote records
    wk,         \* worker -> the vote request it is handling
    started,    \* vote requests started so far
    hist        \* history of the behaviour, read by the properties only:
                \* succAt, per key the cast time of the latest vote that
                \* returned Success; succ, per target the requests that
                \* returned Success; writes, per target the cooldown
                \* writes; lost, per target the cooldown writes whose
                \* counter write failed; debits, per user the credits
                \* debited by votes; incs, per user the counter
                \* increments made for the user's votes
VARIABLE
    js          \* an identifier on its way through the JSON codec of
                \* JsSafeBigInt: phase, the identifier, the JSON value,
                \* the result of parsing it

vars == <<now, credits, targets, cooldowns, wk, started, hist, js>>

store == <<credits, targets, cooldowns>>

Keys == Kinds \X Users \X Ids
TKeys == Kinds \X Ids

(***************************************************************************)
(* The store operations.                                                   *)
(***************************************************************************)
\* user_info::get_user_id_from_token
GetUserIdFromToken(tok) ==
    CASE tok = "t1" -> "u1"
      [] tok = "t2" -> "u2"
      [] OTHER -> NoUser

\* playlist::get_playlist_by_id, entries::get_entry_by_id
GetTargetById(tg, k, id) == tg[k][id]

\* The vote records of key (u, id) in the tracker of kind k.
RecordsOf(cd, k, u, id) == {r \in cd[k] : r.user_id = u /\ r.target_id = id}

\* playlist::has_user_voted, entries::has_user_voted: a record of the key
\* whose cast_at lies within the window of the current time.
HasUserVoted(cd, k, u, id, t) ==
    \E r \in RecordsOf(cd, k, u, id) : t - r.cast_at < CooldownWindow

\* playlist::remove_playlist, entries::remove_entry: the row is deleted.
RemoveTarget(tg, k, id) == [tg EXCEPT ![k][id] = NoRow]

\* user_info::get_user_vote_credits
GetUserVoteCredits(cr, u) == cr[u]

\* user_info::adjust_user_credits: a relative, unconditional adjustment.
AdjustUserCredits(cr, u, delta) == [cr EXCEPT ![u] = @ + delta]

\* The cooldown write of playlist::upvote_playlist / entries::upvote_playlist:
\* an upsert of the record of key (u, id).
RecordVote(cd, k, u, id, t) ==
    [cd EXCEPT ![k] = (@ \ RecordsOf(cd, k, u, id))
                        \cup {[user_id |-> u, target_id |-> id, cast_at |-> t]}]

\* The counter write of playlist::upvote_playlist / entries::upvote_playlist:
\* a blind +1 on the row's votes.
IncrementVotes(tg, k, id) ==
    IF tg[k][id] = NoRow THEN tg
    ELSE [tg EXCEPT ![k][id].votes = @ + 1]

(***************************************************************************)
(* The handler's own decisions.                                            *)
(***************************************************************************)
\* (a variant that never rejects)
VotedGate_Off(voted) == FALSE

\* (a variant with the test negated)
VotedGate_Negated(voted) == ~voted

\* if has_user_voted(..) { return BadRequest(..already up-voted..) }
VotedGate(voted) == voted

\* (a variant that rejects a negative balance only)
CreditsGate_Strict(c) == c < 0

\* if credits <= 0 { return BadRequest(..not enough credits..) }
CreditsGate(c) == c <= 0

\* (a variant that lets every user through)
OwnerGate_Off(owner, user) == FALSE

\* if *playlist.owner_id != user_id { return Ok(JsonResponse::Forbidden) }
OwnerGate(owner, user) == owner # user

\* (a variant that returns the row as it was read)
NewVotes_Same(v) == v

\* playlist.votes += 1
NewVotes(v) == v + 1

(***************************************************************************)
(* JsSafeBigInt (src/src/utils.rs): the identifier's JSON codec.           *)
(***************************************************************************)
\* The values of i64, and of the unsigned integers a JSON number can hold.
MinId == 0 - 2^(IdBits - 1)
MaxId == 2^(IdBits - 1) - 1
MaxUnsigned == 2^IdBits - 1
I64 == MinId..MaxId

\* serde_json::Value, as far as the codec meets it.
JNull == [type |-> "Null", n |-> 0, s |-> <<>>]
JFloat == [type |-> "Float", n |-> 0, s |-> <<>>]
JNumber(n) == [type |-> "Number", n |-> n, s |-> <<>>]
JString(str) == [type |-> "String", n |-> 0, s |-> str]

\* Option / ParseResult of an identifier.
None == [ok |-> FALSE, v |-> 0]
Some(n) == [ok |-> TRUE, v |-> n]

DigitChars == <<"0", "1", "2", "3", "4", "5", "6", "7", "8", "9">>

\* The decimal digits of n >= 0, without leading zeros.
RECURSIVE Digits(_)
Digits(n) ==
    IF n < 10 THEN <<DigitChars[n + 1]>>
    ELSE Append(Digits(n \div 10), DigitChars[(n % 10) + 1])

\* i64::to_string
I64ToString(n) == IF n < 0 THEN <<"-">> \o Digits(0 - n) ELSE Digits(n)

\* fn to_json(&self) -> Value { json!(self.0.to_string()) }
ToJson(n) == JString(I64ToString(n))

\* serde_json::Value::as_i64: the integer of a JSON number that fits i64,
\* None for every other value.
AsI64(v) ==
    IF v.type = "Number" /\ v.n \in I64 THEN Some(v.n) ELSE None

\* fn parse_from_json(value: Value) -> ParseResult<Self> {
\*     value.as_i64().map(|v| Self(v)).ok_or_else(|| ParseError::custom(..)) }
ParseFromJson(v) == AsI64(v)

JsIdle == [phase |-> "none", encoded |-> FALSE, id |-> 0, value |-> JNull,
           result |-> None]

\* A worker's request.  pc: the store call it is about to make; row: the
\* playlist or entry it read; credits: the balance it read; ret: the votes
\* of the row it returned.  The last five fields are read by the properties
\* only: prior, the cast time of the latest vote of its key that had
\* returned Success when the request started; seq, its cooldown read was
\* made within the window of that vote; chk, what its cooldown read found
\* for its key; castAt, the time of its cooldown write; alone, no other
\* request and no adjustment of its user's credits has run since it started.
Idle ==
    [pc |-> "idle", user |-> NoUser, kind |-> "Playlist",
     id |-> "a", row |-> NoRow, credits |-> 0, outcome |-> "none",
     failed |-> "none", ret |-> -1,
     prior |-> NoTime, seq |-> FALSE, chk |-> "none", castAt |-> NoTime,
     alone |-> FALSE]

StoreCalls == {"lookup", "cooldown", "balance", "adjust", "record",
               "increment"}

\* Workers are interchangeable: a request is taken by the first free one.
Before(v, w) == v = "w1" /\ w = "w2"

Finish(w, out) == [wk EXCEPT ![w].pc = "done", ![w].outcome = out]

\* The store with ledger cr, and no request.
InitWith(cr) ==
    /\ now = 0
    /\ credits = cr
    /\ targets = [k \in Kinds |->
                    [i \in Ids |-> IF i = "a"
                                   THEN [owner_id |-> IF k = "Playlist"
                                                      THEN "u1" ELSE "u2",
                                         votes |-> 0]
                                   ELSE NoRow]]
    /\ cooldowns = [k \in Kinds |-> {}]
    /\ wk = [w \in Workers |-> Idle]
    /\ started = 0
    /\ hist = [succAt |-> [key \in Keys |-> NoTime],
               succ |-> [t \in TKeys |-> 0],
               writes |-> [t \in TKeys |-> 0],
               lost |-> [t \in TKeys |-> 0],
               debits |-> [u \in Users |-> 0],
               incs |-> [u \in Users |-> 0]]

\* No user holds a credit yet.
InitVotes == InitWith([u \in Users |-> 0])

Init == InitVotes /\ js = JsIdle

(***************************************************************************)
(* A vote request, step by step.  Every store call is a suspension point,  *)
(* so each is one action.                                                  *)
(***************************************************************************)
\* A request POST /playlists/vote or /entries/vote with bearer token tok
\* arrives at worker w, which resolves the token (the token table is never
\* written, so the read is taken with the arrival):
\* let user_id = match get_user_id_from_token(..).await? { None => return
\* Unauthorized, Some(v) => v }
StartVote(w, tok, k, id) ==
    /\ wk[w].pc \in {"idle", "done"}
    /\ \A v \in Workers : Before(v, w) => wk[v].pc \notin {"idle", "done"}
    /\ started < MaxRequests
    /\ started' = started + 1
    /\ LET u == GetUserIdFromToken(tok)
           req == [Idle EXCEPT !.kind = k, !.id = id]
       IN  wk' = [v \in Workers |->
                    IF v # w
                    THEN [wk[v] EXCEPT !.alone = FALSE]
                    ELSE IF u = NoUser
                    THEN [req EXCEPT !.pc = "done", !.outcome = "Unauthorized"]
                    ELSE [req EXCEPT !.pc = "lookup", !.user = u,
                                     !.prior = hist.succAt[<<k, u, id>>],
                                     !.alone = \A x \in Workers \ {w} :
                                                 wk[x].pc \in {"idle", "done"}]]
    /\ UNCHANGED <<js, now, store, hist>>

\* (a variant that goes on without the row)
Lookup_Unchecked(w) ==
    /\ wk[w].pc = "lookup"
    /\ wk' = [wk EXCEPT ![w].pc = "cooldown",
                        ![w].row = GetTargetById(targets, wk[w].kind, wk[w].id)]
    /\ UNCHANGED <<js, now, store, started, hist>>

\* let mut playlist = match get_playlist_by_id(..).await? { None => return
\* BadRequest(..does not exist..), Some(v) => v }
Lookup(w) ==
    /\ wk[w].pc = "lookup"
    /\ LET row == GetTargetById(targets, wk[w].kind, wk[w].id)
       IN  wk' = IF row = NoRow
                 THEN Finish(w, "TargetNotFound")
                 ELSE [wk EXCEPT ![w].pc = "cooldown", ![w].row = row]
    /\ UNCHANGED <<js, now, store, started, hist>>

\* The cast_at of the record of key (u, id), NoTime when there is none.
CastAtOf(cd, k, u, id) ==
    IF RecordsOf(cd, k, u, id) = {} THEN NoTime
    ELSE (CHOOSE r \in RecordsOf(cd, k, u, id) :
            \A s \in RecordsOf(cd, k, u, id) : s.cast_at <= r.cast_at).cast_at

\* (a variant that looks for the vote in the trackers of both kinds)
CooldownCheck_AnyKind(w) ==
    /\ wk[w].pc = "cooldown"
    /\ LET r == wk[w]
           voted == \E k \in Kinds :
                        HasUserVoted(cooldowns, k, r.user, r.id, now)
       IN  wk' = IF VotedGate(voted)
                 THEN [wk EXCEPT ![w].pc = "done",
                                 ![w].outcome = "CooldownActive"]
                 ELSE [wk EXCEPT ![w].pc = "balance"]
    /\ UNCHANGED <<js, now, store, started, hist>>

\* (a variant that tests the balance before the cooldown)
CooldownCheck_CreditsFirst(w) ==
    /\ wk[w].pc = "cooldown"
    /\ LET r == wk[w]
           voted == HasUserVoted(cooldowns, r.kind, r.user, r.id, now)
           c == GetUserVoteCredits(credits, r.user)
       IN  wk' = IF CreditsGate(c)
                 THEN [wk EXCEPT ![w].pc = "done", ![w].credits = c,
                                 ![w].outcome = "InsufficientCredits"]
                 ELSE IF VotedGate(voted)
                 THEN [wk EXCEPT ![w].pc = "done",
                                 ![w].outcome = "CooldownActive"]
                 ELSE [wk EXCEPT ![w].pc = "balance"]
    /\ UNCHANGED <<js, now, store, started, hist>>

\* if has_user_voted(..).await? { return BadRequest(..) }
CooldownCheck(w) ==
    /\ wk[w].pc = "cooldown"
    /\ LET r == wk[w]
           voted == HasUserVoted(cooldowns, r.kind, r.user, r.id, now)
           at == CastAtOf(cooldowns, r.kind, r.user, r.id)
           seen == [wk EXCEPT
                      ![w].seq = r.prior # NoTime
                                   /\ now - r.prior < CooldownWindow,
                      ![w].chk = IF at = NoTime THEN "absent"
                                 ELSE IF now - at < CooldownWindow
                                 THEN "active" ELSE "expired"]
       IN  wk' = IF VotedGate(voted)
                 THEN [seen EXCEPT ![w].pc = "done",
                                   ![w].outcome = "CooldownActive"]
                 ELSE [seen EXCEPT ![w].pc = "balance"]
    /\ UNCHANGED <<js, now, store, started, hist>>

\* let credits = get_user_vote_credits(..).await?;
\* if credits <= 0 { return BadRequest(..) }
BalanceCheck(w) ==
    /\ wk[w].pc = "balance"
    /\ LET c == GetUserVoteCredits(credits, wk[w].user)
           read == [wk EXCEPT ![w].credits = c]
       IN  wk' = IF CreditsGate(c)
                 THEN [read EXCEPT ![w].pc = "done",
                                   ![w].outcome = "InsufficientCredits"]
                 ELSE [read EXCEPT ![w].pc = "adjust"]
    /\ UNCHANGED <<js, now, store, started, hist>>

\* (a variant that debits the owner of the target)
Debit_Owner(w) ==
    /\ wk[w].pc = "adjust"
    /\ credits' = AdjustUserCredits(credits, wk[w].row.owner_id, DebitDelta)
    /\ wk' = [wk EXCEPT ![w].pc = "record"]
    /\ hist' = [hist EXCEPT !.debits[wk[w].user] = @ + 1]
    /\ UNCHANGED <<js, now, targets, cooldowns, started>>

\* (a variant that goes on to the vote write without the debit)
Debit_Skip(w) ==
    /\ wk[w].pc = "adjust"
    /\ wk' = [wk EXCEPT ![w].pc = "record"]
    /\ UNCHANGED <<js, now, store, started, hist>>

\* adjust_user_credits(&session, user_id, -1).await?;
Debit(w) ==
    /\ wk[w].pc = "adjust"
    /\ credits' = AdjustUserCredits(credits, wk[w].user, DebitDelta)
    /\ wk' = [wk EXCEPT ![w].pc = "record"]
    /\ hist' = [hist EXCEPT !.debits[wk[w].user] = @ + 1]
    /\ UNCHANGED <<js, now, targets, cooldowns, started>>

\* (a variant that leaves the cooldown record out)
Record_Skip(w) ==
    /\ wk[w].pc = "record"
    /\ wk' = [wk EXCEPT ![w].pc = "increment", ![w].castAt = now]
    /\ UNCHANGED <<js, now, store, started, hist>>

\* playlist::upvote_playlist(&session, user_id, playlist.id).await?, its
\* first write: the cooldown record.
Record(w) ==
    /\ wk[w].pc = "record"
    /\ cooldowns' = RecordVote(cooldowns, wk[w].kind, wk[w].user, wk[w].id, now)
    /\ wk' = [wk EXCEPT ![w].pc = "increment", ![w].castAt = now]
    /\ hist' = [hist EXCEPT !.writes[<<wk[w].kind, wk[w].id>>] = @ + 1]
    /\ UNCHANGED <<js, now, credits, targets, started>>

\* (a variant whose counter write is issued twice)
Increment_Twice(w) ==
    /\ wk[w].pc = "increment"
    /\ targets' = IncrementVotes(IncrementVotes(targets, wk[w].kind, wk[w].id),
                                 wk[w].kind, wk[w].id)
    /\ wk' = [wk EXCEPT ![w].pc = "done", ![w].outcome = "Success",
                        ![w].ret = NewVotes(wk[w].row.votes)]
    /\ hist' = [hist EXCEPT
                  !.succ[<<wk[w].kind, wk[w].id>>] = @ + 1,
                  !.incs[wk[w].user] = @ + 1,
                  !.succAt[<<wk[w].kind, wk[w].user, wk[w].id>>] =
                        IF @ < wk[w].castAt THEN wk[w].castAt ELSE @]
    /\ UNCHANGED <<js, now, credits, cooldowns, started>>

\* (a variant that writes the votes it computed from the row it read)
Increment_WriteBack(w) ==
    /\ wk[w].pc = "increment"
    /\ targets' = [targets EXCEPT ![wk[w].kind][wk[w].id].votes =
                                      NewVotes(wk[w].row.votes)]
    /\ wk' = [wk EXCEPT ![w].pc = "done", ![w].outcome = "Success",
                        ![w].ret = NewVotes(wk[w].row.votes)]
    /\ hist' = [hist EXCEPT
                  !.succ[<<wk[w].kind, wk[w].id>>] = @ + 1,
                  !.incs[wk[w].user] = @ + 1,
                  !.succAt[<<wk[w].kind, wk[w].user, wk[w].id>>] =
                        IF @ < wk[w].castAt THEN wk[w].castAt ELSE @]
    /\ UNCHANGED <<js, now, credits, cooldowns, started>>

\* (a variant that returns the counter as stored after its write)
Increment_Reread(w) ==
    /\ wk[w].pc = "increment"
    /\ targets' = IncrementVotes(targets, wk[w].kind, wk[w].id)
    /\ wk' = [wk EXCEPT ![w].pc = "done", ![w].outcome = "Success",
                        ![w].ret = targets'[wk[w].kind][wk[w].id].votes]
    /\ hist' = [hist EXCEPT
                  !.succ[<<wk[w].kind, wk[w].id>>] = @ + 1,
                  !.incs[wk[w].user] = @ + 1,
                  !.succAt[<<wk[w].kind, wk[w].user, wk[w].id>>] =
                        IF @ < wk[w].castAt THEN wk[w].castAt ELSE @]
    /\ UNCHANGED <<js, now, credits, cooldowns, started>>

\* playlist::upvote_playlist(..), its second write: the counter; then
\* playlist.votes += 1; Ok(JsonResponse::Ok(Json(playlist)))
Increment(w) ==
    /\ wk[w].pc = "increment"
    /\ targets' = IncrementVotes(targets, wk[w].kind, wk[w].id)
    /\ wk' = [wk EXCEPT ![w].pc = "done", ![w].outcome = "Success",
                        ![w].ret = NewVotes(wk[w].row.votes)]
    /\ hist' = [hist EXCEPT
                  !.succ[<<wk[w].kind, wk[w].id>>] = @ + 1,
                  !.incs[wk[w].user] = @ + 1,
                  !.succAt[<<wk[w].kind, wk[w].user, wk[w].id>>] =
                        IF @ < wk[w].castAt THEN wk[w].castAt ELSE @]
    /\ UNCHANGED <<js, now, credits, cooldowns, started>>

\* (a variant that takes a failed balance read for a balance of 0)
StoreFail_AsZero(w) ==
    /\ wk[w].pc \in StoreCalls
    /\ wk' = [wk EXCEPT ![w].pc = "done",
                        ![w].outcome = IF wk[w].pc = "balance"
                                       THEN "InsufficientCredits"
                                       ELSE "StoreError",
                        ![w].failed = wk[w].pc]
    /\ hist' = IF wk[w].pc = "increment"
               THEN [hist EXCEPT !.lost[<<wk[w].kind, wk[w].id>>] = @ + 1]
               ELSE hist
    /\ UNCHANGED <<js, now, store, started>>

\* (a variant that gives the credit back when a write after the debit fails)
StoreFail_Refund(w) ==
    /\ wk[w].pc \in StoreCalls
    /\ wk' = [wk EXCEPT ![w].pc = "done", ![w].outcome = "StoreError",
                        ![w].failed = wk[w].pc]
    /\ credits' = IF wk[w].pc \in {"record", "increment"}
                  THEN AdjustUserCredits(credits, wk[w].user, 1)
                  ELSE credits
    /\ hist' = IF wk[w].pc = "increment"
               THEN [hist EXCEPT !.lost[<<wk[w].kind, wk[w].id>>] = @ + 1]
               ELSE hist
    /\ UNCHANGED <<js, now, targets, cooldowns, started>>

\* The `?` after every store call: the call fails, the error is returned
\* to the caller and the handler stops where it is.
StoreFail(w) ==
    /\ wk[w].pc \in StoreCalls
    /\ wk' = [wk EXCEPT ![w].pc = "done", ![w].outcome = "StoreError",
                        ![w].failed = wk[w].pc]
    /\ hist' = IF wk[w].pc = "increment"
               THEN [hist EXCEPT !.lost[<<wk[w].kind, wk[w].id>>] = @ + 1]
               ELSE hist
    /\ UNCHANGED <<js, now, store, started>>

(***************************************************************************)
(* The environment.                                                        *)
(***************************************************************************)
\* Time passes.
Tick ==
    /\ now + TickStep <= MaxTime
    /\ now' = now + TickStep
    /\ UNCHANGED <<js, store, wk, started, hist>>

\* The replenishment schedule: adjust(user_id, +1).
Replenish(u) ==
    /\ credits[u] < MaxCredits
    /\ credits' = AdjustUserCredits(credits, u, 1)
    /\ wk' = [w \in Workers |->
                IF wk[w].user = u THEN [wk[w] EXCEPT !.alone = FALSE]
                ELSE wk[w]]
    /\ UNCHANGED <<js, now, targets, cooldowns, started, hist>>

Next ==
    \/ \E w \in Workers, tok \in Tokens, k \in Kinds, id \in Ids :
            StartVote(w, tok, k, id)
    \/ \E w \in Workers : Lookup(w)
    \/ \E w \in Workers : CooldownCheck(w)
    \/ \E w \in Workers : BalanceCheck(w)
    \/ \E w \in Workers : Debit(w)
    \/ \E w \in Workers : Record(w)
    \/ \E w \in Workers : Increment(w)
    \/ Tick
    \/ \E u \in Users : Replenish(u)

Spec == Init /\ [][Next]_vars

\* The users hold some credits at the start.
InitFunded ==
    /\ \E cr \in [Users -> 0..MaxCredits] : InitWith(cr)
    /\ js = JsIdle

\* The same requests against a store that may fail, at one time of the
\* clock and with the credits the users hold at the start.
NextFail ==
    \/ \E w \in Workers, tok \in Tokens, k \in Kinds, id \in Ids :
            StartVote(w, tok, k, id)
    \/ \E w \in Workers : Lookup(w)
    \/ \E w \in Workers : CooldownCheck(w)
    \/ \E w \in Workers : BalanceCheck(w)
    \/ \E w \in Workers : Debit(w)
    \/ \E w \in Workers : Record(w)
    \/ \E w \in Workers : Increment(w)
    \/ \E w \in Workers : StoreFail(w)

SpecFail == InitFunded /\ [][NextFail]_vars

(***************************************************************************)
(* Deleting a target: delete_playlist, delete_playlist_entry and the       *)
(* superuser overrides, run next to the vote requests.                     *)
(***************************************************************************)
\* A request DELETE /playlists or /entries with bearer token tok arrives at
\* worker w, which resolves the token.
StartDelete(w, tok, k, id) ==
    /\ wk[w].pc \in {"idle", "done"}
    /\ \A v \in Workers : Before(v, w) => wk[v].pc \notin {"idle", "done"}
    /\ started < MaxRequests
    /\ started' = started + 1
    /\ LET u == GetUserIdFromToken(tok)
           req == [Idle EXCEPT !.kind = k, !.id = id]
       IN  wk' = [v \in Workers |->
                    IF v # w
                    THEN [wk[v] EXCEPT !.alone = FALSE]
                    ELSE IF u = NoUser
                    THEN [req EXCEPT !.pc = "done", !.outcome = "Unauthorized"]
                    ELSE [req EXCEPT !.pc = "dlookup", !.user = u]]
    /\ UNCHANGED <<js, now, store, hist>>

\* let playlist = match get_playlist_by_id(..).await? { None => return
\* BadRequest(..does not exist..), Some(playlist) => playlist };
\* if *playlist.owner_id != user_id { return Ok(JsonResponse::Forbidden) }
DeleteLookup(w) ==
    /\ wk[w].pc = "dlookup"
    /\ LET row == GetTargetById(targets, wk[w].kind, wk[w].id)
       IN  wk' = IF row = NoRow
                 THEN Finish(w, "TargetNotFound")
                 ELSE IF OwnerGate(row.owner_id, wk[w].user)
                 THEN [Finish(w, "Forbidden") EXCEPT ![w].row = row]
                 ELSE [wk EXCEPT ![w].pc = "remove", ![w].row = row]
    /\ UNCHANGED <<js, now, store, started, hist>>

\* playlist::remove_playlist(&session, playlist.id).await?;
\* Ok(JsonResponse::Ok(Json(Value::Null)))
Remove(w) ==
    /\ wk[w].pc = "remove"
    /\ targets' = RemoveTarget(targets, wk[w].kind, wk[w].id)
    /\ wk' = Finish(w, "Deleted")
    /\ UNCHANGED <<js, now, credits, cooldowns, started, hist>>

\* remove_playlist_superuser, remove_entry_superuser, called with the
\* superuser key: playlist::remove_playlist(&session, id.0).await?  (The
\* call is a single store call and is not counted among the requests;
\* removing a row that is not there changes nothing.)
SuperuserRemove(k, id) ==
    /\ targets[k][id] # NoRow
    /\ targets' = RemoveTarget(targets, k, id)
    /\ wk' = [v \in Workers |-> [wk[v] EXCEPT !.alone = FALSE]]
    /\ UNCHANGED <<js, now, credits, cooldowns, started, hist>>

\* Votes and deletions side by side, at one time of the clock and with
\* the credits the users hold at the start.
NextDelete ==
    \/ \E w \in Workers, tok \in Tokens, k \in Kinds, id \in Ids :
            StartVote(w, tok, k, id)
    \/ \E w \in Workers : Lookup(w)
    \/ \E w \in Workers : CooldownCheck(w)
    \/ \E w \in Workers : BalanceCheck(w)
    \/ \E w \in Workers : Debit(w)
    \/ \E w \in Workers : Record(w)
    \/ \E w \in Workers : Increment(w)
    \/ \E w \in Workers, tok \in Tokens, k \in Kinds, id \in Ids :
            StartDelete(w, tok, k, id)
    \/ \E w \in Workers : DeleteLookup(w)
    \/ \E w \in Workers : Remove(w)
    \/ \E k \in Kinds, id \in Ids : SuperuserRemove(k, id)

SpecDelete == InitFunded /\ [][NextDelete]_vars

(***************************************************************************)
(* The JSON codec of JsSafeBigInt on its own: an identifier is encoded and *)
(* the encoding parsed, or a value sent by a client is parsed.             *)
(***************************************************************************)
\* What a client can send for an identifier: a JSON number (an integer of
\* either sign or a float), a decimal string, null.
ClientValues ==
    {JNumber(n) : n \in MinId..MaxUnsigned}
        \cup {JString(I64ToString(n)) : n \in I64} \cup {JFloat, JNull}

InitJson ==
    /\ InitVotes
    /\ js \in {[JsIdle EXCEPT !.phase = "id", !.id = n] : n \in I64}
            \cup {[JsIdle EXCEPT !.phase = "wire", !.value = v] :
                        v \in ClientValues}

\* An identifier is written to a response.
Encode ==
    /\ js.phase = "id"
    /\ js' = [js EXCEPT !.phase = "wire", !.encoded = TRUE,
                        !.value = ToJson(js.id)]
    /\ UNCHANGED <<now, store, wk, started, hist>>

\* An identifier is read from a JSON value.
Decode ==
    /\ js.phase = "wire"
    /\ js' = [js EXCEPT !.phase = "parsed",
                        !.result = ParseFromJson(js.value)]
    /\ UNCHANGED <<now, store, wk, started, hist>>

NextJson == Encode \/ Decode

SpecJson == InitJson /\ [][NextJson]_vars

(***************************************************************************)
(* Properties.                                                             *)
(***************************************************************************)
\* The stored votes of target (k, id).
VotesOf(k, id) == targets[k][id].votes

\* Worker w takes the handler's step that follows the store call `from`.
Moves(w, from) == wk[w].pc = from /\ wk'[w].pc # from

\* Worker w returns outcome out in this step.
Returns(w, out) ==
    wk[w].pc \notin {"idle", "done"} /\ wk'[w].pc = "done"
        /\ wk'[w].outcome = out

\* No vote request is in progress.
Quiescent == \A w \in Workers : wk[w].pc \in {"idle", "done"}

\* C1 (cooldown enforcement, sequential): a vote request of (U, T) that
\* starts after a vote of (U, T) has returned Success, and makes its
\* cooldown read within 12 hours of that vote, returns CooldownActive at
\* that read, and its steps leave U's credits as they were.
C1_CooldownEnforced ==
    /\ [](\A w \in Workers :
            wk[w].seq => wk[w].pc = "done" /\ wk[w].outcome = "CooldownActive")
    /\ [][\A w \in Workers :
            (Moves(w, "lookup") \/ Moves(w, "cooldown")
                \/ Returns(w, "CooldownActive"))
            => credits' = credits]_vars

\* A second vote of the pair right after its first returns CooldownActive,
\* the balance staying at 0.
C1_Witness ==
    \E w \in Workers :
        /\ wk[w].seq /\ wk[w].outcome = "CooldownActive"
        /\ wk[w].alone
        /\ hist.succ[<<wk[w].kind, wk[w].id>>] = 1
        /\ credits[wk[w].user] = 0

\* C2 (credit gating): a request whose balance read succeeds and finds
\* credits <= 0 returns InsufficientCredits at that read, and no step of
\* it (the token and target lookups, the cooldown read, the balance read)
\* writes to the ledger, to the cooldown tracker or to the target store.
C2_CreditGating ==
    [][\A w \in Workers :
        /\ (Moves(w, "balance") /\ wk'[w].failed = "none"
                /\ credits[wk[w].user] <= 0)
            => Returns(w, "InsufficientCredits")
        /\ ((wk[w].pc \in {"idle", "done", "lookup", "cooldown"}
                /\ wk'[w].pc # wk[w].pc)
            \/ Returns(w, "InsufficientCredits"))
            => store' = store]_vars

\* A user with balance 0 was answered InsufficientCredits; there is no
\* cooldown record of the pair and the target's counter is untouched.
C2_Witness ==
    \E w \in Workers :
        /\ wk[w].outcome = "InsufficientCredits"
        /\ wk[w].credits = 0
        /\ RecordsOf(cooldowns, wk[w].kind, wk[w].user, wk[w].id) = {}
        /\ VotesOf(wk[w].kind, wk[w].id) = 0

\* C3 (a successful vote in isolation): a request that runs with nothing
\* else interleaved, reads the target with votes = v, finds no active
\* cooldown and reads a balance b > 0, returns Success with count v + 1;
\* afterwards the balance is b - 1, the stored votes are v + 1 and the
\* pair's cooldown record is the one written by this vote, at its time
\* (no store call of the request failing).
C3_IsolatedVote ==
    \A w \in Workers :
        (/\ wk[w].alone
         /\ wk[w].pc = "done" /\ wk[w].failed = "none"
         /\ wk[w].row # NoRow
         /\ wk[w].chk \in {"absent", "expired"}
         /\ wk[w].credits > 0)
        => /\ wk[w].outcome = "Success"
           /\ wk[w].ret = wk[w].row.votes + 1
           /\ VotesOf(wk[w].kind, wk[w].id) = wk[w].row.votes + 1
           /\ credits[wk[w].user] = wk[w].credits - 1
           /\ wk[w].castAt \in 0..now
           /\ RecordsOf(cooldowns, wk[w].kind, wk[w].user, wk[w].id)
                = {[user_id |-> wk[w].user, target_id |-> wk[w].id,
                    cast_at |-> wk[w].castAt]}

\* A user with balance 1 voted alone on a target that had 1 vote: Success,
\* count 2, balance 0.
C3_Witness ==
    \E w \in Workers :
        /\ wk[w].alone /\ wk[w].outcome = "Success"
        /\ wk[w].row.votes = 1 /\ wk[w].ret = 2
        /\ wk[w].credits = 1 /\ credits[wk[w].user] = 0

\* C4 (counter monotonicity): in every step the stored votes of a target
\* grow by the number of requests that return Success on it in that step
\* (one or none) and by nothing else, so they never decrease; a target
\* created with votes = 0 holds the number of Success answers given for it.
C4_CounterMonotone ==
    /\ [](\A k \in Kinds, i \in Ids :
            targets[k][i] # NoRow => VotesOf(k, i) = hist.succ[<<k, i>>])
    /\ [][\A k \in Kinds, i \in Ids :
            targets[k][i] # NoRow =>
                /\ targets'[k][i] # NoRow
                /\ targets'[k][i].votes - VotesOf(k, i)
                     = Cardinality({w \in Workers :
                            /\ Returns(w, "Success")
                            /\ wk[w].kind = k /\ wk[w].id = i})]_vars

\* A target has taken two votes while another request on it was refused.
C4_Witness ==
    \E k \in Kinds, i \in Ids :
        /\ VotesOf(k, i) = 2
        /\ \E w \in Workers :
            /\ wk[w].kind = k /\ wk[w].id = i
            /\ wk[w].outcome = "Success"

\* C5 (no lost counter update across users): a request that finds its
\* target, no active cooldown and a positive balance, and none of whose
\* store calls fails, returns Success, and
\* when two requests of distinct users on the same target have both read
\* the same votes v and both returned Success, and no other vote on the
\* target has succeeded since, the stored counter is v + 2.
C5_NoLostUpdate ==
    /\ \A w \in Workers :
        (wk[w].pc = "done" /\ wk[w].failed = "none"
            /\ wk[w].chk \in {"absent", "expired"}
            /\ wk[w].credits > 0) => wk[w].outcome = "Success"
    /\ \A a, b \in Workers :
        (/\ a # b
         /\ wk[a].outcome = "Success" /\ wk[b].outcome = "Success"
         /\ wk[a].kind = wk[b].kind /\ wk[a].id = wk[b].id
         /\ wk[a].user # wk[b].user
         /\ wk[a].row.votes = wk[b].row.votes
         /\ hist.succ[<<wk[a].kind, wk[a].id>>] = wk[a].row.votes + 2)
        => VotesOf(wk[a].kind, wk[a].id) = wk[a].row.votes + 2

\* Two users voted on one target at the same time, both read votes = 0,
\* both got Success, and the counter is 2.
C5_Witness ==
    \E a, b \in Workers :
        /\ a # b
        /\ wk[a].outcome = "Success" /\ wk[b].outcome = "Success"
        /\ wk[a].kind = wk[b].kind /\ wk[a].id = wk[b].id
        /\ wk[a].user # wk[b].user
        /\ wk[a].row.votes = 0 /\ wk[b].row.votes = 0
        /\ VotesOf(wk[a].kind, wk[a].id) = 2

\* C6 (idempotence within the window under any interleaving): two
\* requests of one pair (U, T) never both write a vote within one cooldown
\* window of each other; the later one is stopped at the cooldown read.
C6_Idempotent ==
    \A a, b \in Workers :
        (/\ a # b
         /\ wk[a].user # NoUser
         /\ wk[a].user = wk[b].user
         /\ wk[a].kind = wk[b].kind /\ wk[a].id = wk[b].id
         /\ wk[a].castAt # NoTime /\ wk[b].castAt # NoTime
         /\ wk[a].castAt <= wk[b].castAt)
        => wk[b].castAt - wk[a].castAt >= CooldownWindow

\* C7 (no spending credits one does not have): stored credits never drop
\* below 0.
C7_NoNegativeCredits == \A u \in Users : credits[u] >= 0

\* The cooldown records kept for target (k, id): one per user.
RecordsFor(k, id) == {r \in cooldowns[k] : r.target_id = id}

\* C8, as stated (votes equals records): with no request in progress, the
\* stored votes of a target created with votes = 0 equal the number of
\* distinct (user, target) cooldown records recorded for it.
C8_VotesEqualRecords ==
    Quiescent =>
        \A k \in Kinds, i \in Ids :
            targets[k][i] # NoRow
                => VotesOf(k, i) = Cardinality(RecordsFor(k, i))

\* C8, amended (votes equals cooldown writes): with no request in progress,
\* the stored votes of a target created with votes = 0 equal the number of
\* cooldown writes made for it, a write that overwrites the record of its
\* key counted like any other, less the writes whose counter write failed;
\* so they are never fewer than the distinct records less those.
C8_VotesEqualWrites ==
    Quiescent =>
        \A k \in Kinds, i \in Ids :
            targets[k][i] # NoRow
                => /\ VotesOf(k, i) = hist.writes[<<k, i>>] - hist.lost[<<k, i>>]
                   /\ VotesOf(k, i) >= Cardinality(RecordsFor(k, i))
                                         - hist.lost[<<k, i>>]

\* A user has voted twice on one target, the second time after the window,
\* and no two requests have ever run at the same time: two votes, two
\* cooldown writes, one record.
C8_Witness ==
    /\ Quiescent
    /\ \A w \in Workers : Before("w1", w) => wk[w].pc = "idle"
    /\ \E k \in Kinds, i \in Ids :
        /\ VotesOf(k, i) = 2
        /\ hist.writes[<<k, i>>] = 2
        /\ Cardinality(RecordsFor(k, i)) = 1
        /\ \E w \in Workers : wk[w].chk = "expired" /\ wk[w].kind = k
                                /\ wk[w].id = i

\* C9 (cooldown expiry and upsert): a request whose cooldown read finds the
\* pair's record younger than 12 hours returns CooldownActive; one that
\* finds it 12 hours old or older is not refused for cooldown and, with a
\* positive balance, returns Success; a key never has two records, and once
\* the votes of a key have returned Success, its one record carries the
\* cast time of the latest of them.
C9_ExpiryAndUpsert ==
    /\ \A w \in Workers :
        /\ wk[w].chk = "active"
            => wk[w].pc = "done" /\ wk[w].outcome = "CooldownActive"
        /\ wk[w].chk \in {"absent", "expired"}
            => wk[w].outcome # "CooldownActive"
        /\ (wk[w].chk = "expired" /\ wk[w].pc = "done" /\ wk[w].credits > 0
                /\ wk[w].failed = "none")
            => wk[w].outcome = "Success"
    /\ \A k \in Kinds, u \in Users, i \in Ids :
        /\ Cardinality(RecordsOf(cooldowns, k, u, i)) <= 1
        /\ (/\ hist.succAt[<<k, u, i>>] # NoTime
            /\ hist.lost[<<k, i>>] = 0
            /\ \A w \in Workers :
                 ~(wk[w].pc = "increment" /\ wk[w].kind = k
                     /\ wk[w].user = u /\ wk[w].id = i))
            => RecordsOf(cooldowns, k, u, i)
                 = {[user_id |-> u, target_id |-> i,
                     cast_at |-> hist.succAt[<<k, u, i>>]]}

\* A pair voted at hour 0 and, the window over, again: Success, and the
\* pair's one record carries the time of the second vote.
C9_Witness ==
    \E w \in Workers :
        /\ wk[w].prior = 0
        /\ wk[w].chk = "expired" /\ wk[w].outcome = "Success"
        /\ wk[w].castAt = CooldownWindow
        /\ RecordsOf(cooldowns, wk[w].kind, wk[w].user, wk[w].id)
             = {[user_id |-> wk[w].user, target_id |-> wk[w].id,
                 cast_at |-> CooldownWindow]}

\* C10 (TargetNotFound leaves the state unchanged): a request whose target
\* lookup succeeds and finds no row returns TargetNotFound at that lookup, and neither
\* that step nor the token lookup before it changes any credits, any
\* cooldown record or any counter.
C10_TargetNotFound ==
    [][\A w \in Workers :
        /\ (Moves(w, "lookup") /\ wk'[w].failed = "none"
                /\ targets[wk[w].kind][wk[w].id] = NoRow)
            => Returns(w, "TargetNotFound")
        /\ ((wk[w].pc \in {"idle", "done"} /\ wk'[w].pc # wk[w].pc)
            \/ Returns(w, "TargetNotFound"))
            => store' = store]_vars

\* A user with a positive balance and a cooldown record of another target
\* was answered TargetNotFound.
C10_Witness ==
    \E w \in Workers :
        /\ wk[w].outcome = "TargetNotFound"
        /\ credits[wk[w].user] > 0
        /\ \E r \in cooldowns[wk[w].kind] : r.user_id = wk[w].user

\* C11 (lossless identifier round trip): the value to_json produces for an
\* identifier n parses back to n, and every JSON number or decimal string
\* that denotes an identifier n parses to n.
C11_RoundTrip ==
    js.phase = "parsed" =>
        /\ js.encoded => js.result = Some(js.id)
        /\ \A n \in I64 :
              js.value \in {JNumber(n), JString(I64ToString(n))}
                  => js.result = Some(n)

\* C12 (ownership check on delete): a delete request whose lookup finds a
\* row owned by another user returns Forbidden and removes nothing; one
\* whose lookup finds no row returns the not-found error, a different
\* response; and every row removed by a step of a request (the superuser
\* override is no request of a user) is removed by a delete request of a
\* user equal to the row's owner_id.
C12_OwnershipOnDelete ==
    [][/\ \A w \in Workers :
            LET row == targets[wk[w].kind][wk[w].id]
            IN  /\ (Moves(w, "dlookup") /\ row # NoRow
                        /\ row.owner_id # wk[w].user)
                    => Returns(w, "Forbidden") /\ targets' = targets
                /\ (Moves(w, "dlookup") /\ row = NoRow)
                    => Returns(w, "TargetNotFound")
                /\ (Moves(w, "dlookup") /\ row # NoRow
                        /\ row.owner_id = wk[w].user)
                    => wk'[w].pc = "remove" /\ targets' = targets
       /\ \A k \in Kinds, i \in Ids :
            (targets[k][i] # NoRow /\ targets'[k][i] = NoRow
                /\ \E w \in Workers : wk'[w].pc # wk[w].pc)
            => \E w \in Workers :
                    /\ Moves(w, "remove") /\ Returns(w, "Deleted")
                    /\ wk[w].kind = k /\ wk[w].id = i
                    /\ wk[w].user = targets[k][i].owner_id]_vars

\* A delete request of a user who does not own the row has been answered
\* Forbidden and the row is still there, while the owner's delete request
\* for the other kind's row has removed that row.
C12_Witness ==
    \E v, w \in Workers :
        /\ wk[v].pc = "done" /\ wk[v].outcome = "Forbidden"
        /\ targets[wk[v].kind][wk[v].id] # NoRow
        /\ targets[wk[v].kind][wk[v].id].owner_id # wk[v].user
        /\ wk[w].pc = "done" /\ wk[w].outcome = "Deleted"
        /\ wk[w].row.owner_id = wk[w].user
        /\ targets[wk[w].kind][wk[w].id] = NoRow

\* The requests of user u that have passed the debit and are about to write
\* the cooldown record or the counter.
Writing(u) ==
    {w \in Workers : wk[w].user = u /\ wk[w].pc \in {"record", "increment"}}

\* C13 (debit before count): in every state, store failures and concurrent
\* requests included, the counter increments made for votes of a user,
\* together with the user's requests that have reached the cooldown write
\* or the counter write, are at most the credits debited from the user by
\* votes: a request writes only after its debit.
C13_DebitBeforeCount ==
    \A u \in Users :
        hist.incs[u] + Cardinality(Writing(u)) <= hist.debits[u]

\* A request was debited and then failed at the cooldown write, while a
\* second request, debited too, is about to write the counter.
C13_Witness ==
    \E v, w \in Workers :
        /\ wk[v].outcome = "StoreError" /\ wk[v].failed = "record"
        /\ wk[w].pc = "increment"
        /\ hist.debits[wk[v].user] > hist.incs[wk[v].user]
        /\ hist.debits[wk[w].user] > hist.incs[wk[w].user]

\* The place of a store call in the handler.
PcRank(pc) ==
    CASE pc = "lookup" -> 1
      [] pc = "cooldown" -> 2
      [] pc = "balance" -> 3
      [] pc = "adjust" -> 4
      [] pc = "record" -> 5
      [] pc = "increment" -> 6
      [] OTHER -> 7

\* C14 (no rollback and no retry after a failure that follows the debit):
\* a request whose cooldown write or counter write fails returns a store
\* error in that step, which changes no credits, no cooldown record and no
\* counter; a request never goes back to a store call it has made, and
\* once it has returned it makes no further step; so after such a failure
\* of a request that ran alone the balance is one below the balance it
\* read, the counter is as it was read, and the cooldown record is written
\* exactly when the failure was at the counter write.
C14_NoRollbackNoRetry ==
    /\ [][\A w \in Workers :
            /\ (wk[w].pc \in {"record", "increment"} /\ wk'[w].pc = "done"
                    /\ wk'[w].failed # "none")
                => /\ Returns(w, "StoreError")
                   /\ wk'[w].failed = wk[w].pc
                   /\ store' = store
            /\ (wk[w].pc \in StoreCalls /\ wk'[w].pc # wk[w].pc)
                => PcRank(wk'[w].pc) > PcRank(wk[w].pc)
            /\ (wk[w].pc = "done" /\ started' = started)
                => /\ wk'[w].pc = "done"
                   /\ wk'[w].outcome = wk[w].outcome
            /\ \A u \in Users :
                hist'.debits[u] # hist.debits[u]
                => /\ hist'.debits[u] = hist.debits[u] + 1
                   /\ credits'[u] = credits[u] - 1
                   /\ \E x \in Workers :
                        Moves(x, "adjust") /\ wk[x].user = u]_vars
    /\ [](\A w \in Workers :
            (wk[w].alone /\ wk[w].pc = "done"
                /\ wk[w].failed \in {"record", "increment"})
            => /\ wk[w].outcome = "StoreError"
               /\ credits[wk[w].user] = wk[w].credits - 1
               /\ VotesOf(wk[w].kind, wk[w].id) = wk[w].row.votes
               /\ (wk[w].failed = "record") <=> (wk[w].castAt = NoTime))

\* A request that ran alone read balance 1, was debited, wrote its cooldown
\* record and failed at the counter write: balance 0, counter unchanged.
C14_Witness ==
    \E w \in Workers :
        /\ wk[w].alone /\ wk[w].pc = "done" /\ wk[w].failed = "increment"
        /\ wk[w].credits = 1 /\ credits[wk[w].user] = 0
        /\ VotesOf(wk[w].kind, wk[w].id) = wk[w].row.votes
        /\ RecordsOf(cooldowns, wk[w].kind, wk[w].user, wk[w].id) # {}

\* The store calls a request makes before the debit.
Reads == {"lookup", "cooldown", "balance"}

\* C15 (a store failure before the debit changes nothing): a request whose
\* target lookup, cooldown read or balance read fails returns the store
\* error in that step, never InsufficientCredits or Success; that step and
\* every step the request made before it leave credits, cooldown records
\* and counters unchanged, and the request has written no cooldown record
\* and caused no debit.
C15_FailureBeforeDebit ==
    /\ [][\A w \in Workers :
            /\ (wk[w].pc \in Reads /\ wk'[w].failed # "none")
                => /\ Returns(w, "StoreError")
                   /\ wk'[w].failed = wk[w].pc
            /\ (wk[w].pc \in Reads /\ wk'[w].pc # wk[w].pc)
                => store' = store /\ hist'.debits = hist.debits]_vars
    /\ [](\A w \in Workers :
            wk[w].failed \in Reads
            => /\ wk[w].pc = "done" /\ wk[w].outcome = "StoreError"
               /\ wk[w].castAt = NoTime /\ wk[w].ret = 0 - 1)

\* The balance read of a user who holds a credit has failed: the request
\* was answered with the store error and the credit is still there.
C15_Witness ==
    \E w \in Workers :
        /\ wk[w].failed = "balance" /\ wk[w].outcome = "StoreError"
        /\ wk[w].alone /\ credits[wk[w].user] > 0
        /\ RecordsOf(cooldowns, wk[w].kind, wk[w].user, wk[w].id) = {}
        /\ VotesOf(wk[w].kind, wk[w].id) = wk[w].row.votes

\* The cooldown of worker w's key is active now.
ActiveFor(w) ==
    HasUserVoted(cooldowns, wk[w].kind, wk[w].user, wk[w].id, now)

\* C16 (gate order and short circuit): a request passes the target lookup,
\* the cooldown read and the balance read in this order and returns at the
\* first gate that fails: a missing target gives TargetNotFound at the
\* lookup, whatever the cooldown and the balance are; an active cooldown
\* gives CooldownActive at the cooldown read, whatever the balance is;
\* InsufficientCredits is given at the balance read only, and each refusal
\* of a vote request is given at its own gate only.
C16_GateOrder ==
    [][\A w \in Workers :
        /\ Moves(w, "lookup") =>
                IF targets[wk[w].kind][wk[w].id] = NoRow
                THEN Returns(w, "TargetNotFound")
                ELSE wk'[w].pc = "cooldown"
        /\ Moves(w, "cooldown") =>
                IF ActiveFor(w)
                THEN Returns(w, "CooldownActive")
                ELSE wk'[w].pc = "balance"
        /\ Moves(w, "balance") =>
                IF credits[wk[w].user] <= 0
                THEN Returns(w, "InsufficientCredits")
                ELSE wk'[w].pc = "adjust"
        /\ (wk[w].pc \in StoreCalls /\ Returns(w, "TargetNotFound"))
            => wk[w].pc = "lookup"
        /\ Returns(w, "CooldownActive") => wk[w].pc = "cooldown"
        /\ Returns(w, "InsufficientCredits") => wk[w].pc = "balance"]_vars

\* A user voted with the last credit, and votes again within the window:
\* cooldown active and balance 0, and the answer is CooldownActive.
C16_Witness ==
    \E v, w \in Workers :
        /\ v # w /\ wk[v].outcome = "Success"
        /\ wk[w].pc = "done" /\ wk[w].outcome = "CooldownActive"
        /\ wk[w].user = wk[v].user /\ wk[w].kind = wk[v].kind
        /\ wk[w].id = wk[v].id
        /\ credits[wk[w].user] = 0
        /\ targets[wk[w].kind][wk[w].id] # NoRow

\* C17 (the returned count is the prior read plus one): a request that
\* returns Success returns the votes of the row it read at the target
\* lookup plus 1; in the step of its increment that count equals the
\* stored counter if the stored counter was still the one it had read, and
\* is below the stored counter otherwise.
C17_ReturnedCount ==
    /\ [](\A w \in Workers :
            wk[w].outcome = "Success" => wk[w].ret = wk[w].row.votes + 1)
    /\ [][\A w \in Workers :
            Returns(w, "Success") =>
                LET before == targets[wk[w].kind][wk[w].id].votes
                    after == targets'[wk[w].kind][wk[w].id].votes
                IN  /\ wk'[w].ret = wk[w].row.votes + 1
                    /\ before = wk[w].row.votes => wk'[w].ret = after
                    /\ before # wk[w].row.votes => wk'[w].ret < after]_vars

\* Two requests read votes = 0 of one target; both returned Success with
\* count 1, and the stored counter is 2: the count returned last was stale.
C17_Witness ==
    \E v, w \in Workers :
        /\ v # w /\ wk[v].kind = wk[w].kind /\ wk[v].id = wk[w].id
        /\ wk[v].outcome = "Success" /\ wk[w].outcome = "Success"
        /\ wk[v].row.votes = 0 /\ wk[w].row.votes = 0
        /\ wk[v].ret = 1 /\ wk[w].ret = 1
        /\ wk[w].ret < VotesOf(wk[w].kind, wk[w].id)

\* C18 (disjoint cooldown key spaces per kind): the cooldown write of a
\* vote on a playlist changes the playlist tracker only, that of a vote on
\* an entry the entry tracker only; and a request is answered
\* CooldownActive exactly when the tracker of its own kind holds an active
\* record of its key, whatever the tracker of the other kind holds for the
\* same user and id.
C18_DisjointKinds ==
    [][\A w \in Workers :
        /\ Moves(w, "record") =>
                \A k \in Kinds \ {wk[w].kind} : cooldowns'[k] = cooldowns[k]
        /\ Moves(w, "cooldown") =>
                (Returns(w, "CooldownActive") <=> ActiveFor(w))
        /\ Returns(w, "CooldownActive") =>
                \E r \in cooldowns[wk[w].kind] :
                    r.user_id = wk[w].user /\ r.target_id = wk[w].id]_vars

\* A user's vote on a playlist returned Success; after it the user voted,
\* within the window and with no other request running, on the entry with
\* the same id, and that vote returned Success too; each tracker holds one
\* record of the user and the id.
C18_Witness ==
    \E w \in Workers :
        /\ wk[w].kind = "Entry" /\ wk[w].outcome = "Success" /\ wk[w].alone
        /\ wk[w].chk = "absent"
        /\ hist.succAt[<<"Playlist", wk[w].user, wk[w].id>>] # NoTime
        /\ \E r \in RecordsOf(cooldowns, "Playlist", wk[w].user, wk[w].id) :
                /\ r.cast_at <= wk[w].castAt
                /\ wk[w].castAt - r.cast_at < CooldownWindow
        /\ \A k \in Kinds :
                Cardinality(RecordsOf(cooldowns, k, wk[w].user, wk[w].id)) = 1

\* The records of tracker table cd other than those of key (u, id).
OtherRecords(cd, u, id) ==
    {r \in cd : r.user_id # u \/ r.target_id # id}

\* C19 (frame of a vote): every step of a vote request of user U on target
\* T, whatever the request's outcome, leaves unchanged the credits of
\* every other user, the row of every other target, the owner_id of T, the
\* tracker of the other kind and every record of T's tracker with another
\* key; the step that starts the request changes nothing in the store.
C19_VoteFrame ==
    [][\A w \in Workers :
        /\ (wk[w].pc \in StoreCalls /\ wk'[w].pc # wk[w].pc) =>
            LET u == wk[w].user
                k == wk[w].kind
                i == wk[w].id
            IN  /\ \A x \in Users \ {u} : credits'[x] = credits[x]
                /\ \A t \in TKeys \ {<<k, i>>} :
                        targets'[t[1]][t[2]] = targets[t[1]][t[2]]
                /\ targets'[k][i].owner_id = targets[k][i].owner_id
                /\ \A j \in Kinds \ {k} : cooldowns'[j] = cooldowns[j]
                /\ OtherRecords(cooldowns'[k], u, i)
                        = OtherRecords(cooldowns[k], u, i)
        /\ (wk[w].pc \in {"idle", "done"} /\ wk'[w].pc # wk[w].pc)
            => store' = store]_vars

\* A vote of one user on the entry has returned Success; next to it a vote
\* of the other user on the playlist was debited, wrote its record and
\* failed at the counter write.  The entry, its record and both owners are
\* as the first vote left them.
C19_Witness ==
    \E v, w \in Workers :
        /\ wk[v].outcome = "Success" /\ wk[v].kind = "Entry"
        /\ wk[w].outcome = "StoreError" /\ wk[w].failed = "increment"
        /\ wk[w].kind = "Playlist" /\ wk[w].user # wk[v].user
        /\ VotesOf("Entry", wk[v].id) = 1
        /\ RecordsOf(cooldowns, "Entry", wk[v].user, wk[v].id) # {}
        /\ RecordsOf(cooldowns, "Playlist", wk[w].user, wk[w].id) # {}
        /\ targets["Playlist"][wk[w].id].owner_id = wk[w].row.owner_id
        /\ targets["Entry"][wk[v].id].owner_id = wk[v].row.owner_id

\* C20 (no vote effect on a deleted target): a vote request debits its
\* user, writes its cooldown record and increments the counter only while
\* the row of its target is in the store.
C20_NoEffectAfterDelete ==
    [][\A w \in Workers :
        (wk[w].pc \in {"adjust", "record", "increment"}
            /\ wk'[w].pc # wk[w].pc)
        => targets[wk[w].kind][wk[w].id] # NoRow]_vars

=============================================================================
